---- MODULE Spec2Model ----
(***************************************************************************)
(* RelationJoinColumnBuilder (src/metadata-builder/RelationJoinColumnBuilder)*)
(* as a state machine over a heap of ColumnMetadata objects.               *)
(*                                                                         *)
(* A ColumnMetadata object is a heap cell, named by its index in `heap`;   *)
(* two references are the same object iff the indexes are equal, so that   *)
(* in-place reuse, cloning and aliasing are distinguishable.               *)
(* Undef stands for a falsy JavaScript value (undefined or ""): the code   *)
(* tests join-column names only with `!!`, `!` and `===`.                  *)
(*                                                                         *)
(* State:                                                                  *)
(*   heap        the ColumnMetadata objects (fields the builder reads or   *)
(*               writes: names, type, isPrimary, referencedColumn,         *)
(*               relationMetadata)                                         *)
(*   ownColumns  EntityMetadata.ownColumns of every entity                 *)
(*   resolved    what build() returned for each relation resolved so far   *)
(*   lastCall    the arguments and outcome of the latest build() call      *)
(* Of the options copied from the referenced column at lines 205-230 only  *)
(* the type is kept; length, width, charset, ... and the names and         *)
(* actions of the constraints are values carried along unchanged and are   *)
(* left out.                                                               *)
(***************************************************************************)
EXTENDS Integers, Sequences, FiniteSets, TLC

VARIABLES heap, ownColumns, resolved, lastCall

vars == <<heap, ownColumns, resolved, lastCall>>

-----------------------------------------------------------------------------
(* Bounds *)

\* longest list of @JoinColumn specs handed to one build() call under Spec
MaxJoinColumns == 2
\* number of relations resolved one after the other under SpecSeq
MaxRelations == 2

-----------------------------------------------------------------------------
(* Values *)

Undef == "<undefined>"
NoColumn == 0

Entities == {"Post", "Category"}

\* property names of the relations, in the order the caller resolves them
RelationNames == <<"a", "b", "c", "d", "e">>

\* JoinColumnMetadataArgs: name and referencedColumnName, each optional
JoinColumnArgs(names, referenced) ==
    [name : names, referencedColumnName : referenced]

RECURSIVE SeqsUpTo(_, _)
SeqsUpTo(S, n) ==
    IF n = 0 THEN {<<>>}
    ELSE LET shorter == SeqsUpTo(S, n - 1)
         IN  shorter \cup {Append(s, x) : s \in {t \in shorter : Len(t) = n - 1}, x \in S}

\* embedded.columns of the one embedded of each entity: fixed at schema load
EmbeddedColumns == [e \in Entities |-> IF e = "Post" THEN <<3>> ELSE <<>>]

Column(entity, property, dbName, type, primary) ==
    [entityMetadata |-> entity, propertyName |-> property,
     databaseNameWithoutPrefixes |-> dbName, type |-> type,
     isPrimary |-> primary, isVirtual |-> FALSE,
     referencedColumn |-> NoColumn, relationMetadata |-> Undef]

\* the declared schema: Post(id PK, title, embedded meta(title)),
\* Category(id PK, title PK)
InitialHeap ==
    << Column("Post", "id", "id", "int", TRUE),
       Column("Post", "title", "title", "varchar", FALSE),
       Column("Post", "title", "title", "text", FALSE),
       Column("Category", "id", "id", "int", TRUE),
       Column("Category", "title", "title", "varchar", TRUE) >>

Relation(name, entity, inverse, type, primary, createFk, embedded) ==
    [propertyName |-> name, entityMetadata |-> entity,
     inverseEntityMetadata |-> inverse, relationType |-> type,
     isPrimary |-> primary, createForeignKeyConstraints |-> createFk,
     embeddedMetadata |-> embedded]

isManyToOne(relation) == relation.relationType = "many-to-one"
isOneToOne(relation) == relation.relationType = "one-to-one"

NoForeignKey == [present |-> FALSE, columns |-> <<>>, referencedColumns |-> <<>>]
NoUnique == [present |-> FALSE, columns |-> <<>>]

-----------------------------------------------------------------------------
(* Helpers *)

Min(S) == CHOOSE x \in S : \A y \in S : x <= y

Range(s) == {s[i] : i \in 1..Len(s)}

Last(s) == s[Len(s)]

\* Array.prototype.find over a sequence of column references: the first of
\* the positions that pass the test, undefined when none does
FindColumn(cols, hits) ==
    IF hits = {} THEN NoColumn ELSE cols[Min(hits)]

\* EntityMetadata.columns: own columns followed by the embedded columns
AllColumns(own, entity) == own[entity] \o EmbeddedColumns[entity]

\* EntityMetadata.primaryColumns: the columns flagged primary, in order
primaryColumns(h, own, entity) ==
    LET all == AllColumns(own, entity)
        RECURSIVE Keep(_)
        Keep(i) == IF i > Len(all) THEN <<>>
                   ELSE (IF h[all[i]].isPrimary THEN <<all[i]>> ELSE <<>>) \o Keep(i + 1)
    IN  Keep(1)

\* EntityMetadata.registerColumn: append to the entity's own columns
registerColumn(own, entity, column) ==
    IF column \in Range(own[entity]) THEN own
    ELSE [own EXCEPT ![entity] = Append(@, column)]

\* NamingStrategy.joinColumnName(relationName, referencedColumnName)
joinColumnName(relationName, referencedColumnName) ==
    relationName \o "_" \o referencedColumnName

-----------------------------------------------------------------------------
(* collectReferencedColumns *)

isSet(value) == value # Undef

\* variant: only the first spec is asked for a referencedColumnName
hasFirstReferencedColumnName(joinColumns) ==
    Len(joinColumns) > 0 /\ isSet(joinColumns[1].referencedColumnName)

\* joinColumns.find((args) => !!args.referencedColumnName), as a truth value
hasAnyReferencedColumnName(joinColumns) ==
    \E i \in 1..Len(joinColumns) : isSet(joinColumns[i].referencedColumnName)

\* variant: a lookup that finds nothing falls back to the first own column
findReferencedColumnOrFirst(joinColumn, relation) ==
    LET cols == ownColumns[relation.inverseEntityMetadata]
        found == FindColumn(cols,
                     {i \in 1..Len(cols) :
                         heap[cols[i]].propertyName =
                             joinColumn.referencedColumnName})
    IN  IF found = NoColumn
        THEN ownColumns[relation.inverseEntityMetadata][1]
        ELSE found

\* inverseEntityMetadata.ownColumns.find(propertyName === referencedColumnName)
findReferencedColumn(joinColumn, relation) ==
    LET cols == ownColumns[relation.inverseEntityMetadata]
    IN  FindColumn(cols,
            {i \in 1..Len(cols) :
                heap[cols[i]].propertyName = joinColumn.referencedColumnName})

\* variant: the primary key is the default for every relation type
collectReferencedColumnsAnyRelation(joinColumns, relation) ==
    LET found == [i \in 1..Len(joinColumns) |->
                     findReferencedColumn(joinColumns[i], relation)]
    IN  IF Len(joinColumns) = 0 \/ ~hasAnyReferencedColumnName(joinColumns)
        THEN [threw |-> FALSE,
              columns |-> primaryColumns(heap, ownColumns,
                                         relation.inverseEntityMetadata)]
        ELSE IF \E i \in 1..Len(found) : found[i] = NoColumn
             THEN [threw |-> TRUE, columns |-> <<>>]
             ELSE [threw |-> FALSE, columns |-> found]

collectReferencedColumns(joinColumns, relation) ==
    LET manyToOneWithoutJoinColumn ==
            Len(joinColumns) = 0 /\ isManyToOne(relation)
        hasJoinColumnWithoutAnyReferencedColumnName ==
            Len(joinColumns) > 0 /\ ~hasAnyReferencedColumnName(joinColumns)
        found == [i \in 1..Len(joinColumns) |->
                     findReferencedColumn(joinColumns[i], relation)]
    IN  IF manyToOneWithoutJoinColumn \/ hasJoinColumnWithoutAnyReferencedColumnName
        THEN [threw |-> FALSE,
              columns |-> primaryColumns(heap, ownColumns,
                                         relation.inverseEntityMetadata)]
        ELSE IF \E i \in 1..Len(found) : found[i] = NoColumn
             THEN [threw |-> TRUE, columns |-> <<>>]
             ELSE [threw |-> FALSE, columns |-> found]

-----------------------------------------------------------------------------
(* collectColumns *)

\* variant: the first spec with a name, whatever column it refers to
joinColumnMetadataArgFirstNamed(joinColumns, referencedProperty) ==
    LET hits == {i \in 1..Len(joinColumns) : isSet(joinColumns[i].name)}
    IN  IF hits = {} THEN 0 ELSE Min(hits)

\* joinColumns.find(...) of collectColumns: index of the spec, 0 when none
joinColumnMetadataArg(joinColumns, referencedProperty) ==
    LET hits == {i \in 1..Len(joinColumns) :
                    /\ \/ ~isSet(joinColumns[i].referencedColumnName)
                       \/ joinColumns[i].referencedColumnName = referencedProperty
                    /\ isSet(joinColumns[i].name)}
    IN  IF hits = {} THEN 0 ELSE Min(hits)

joinColumnNameFor(joinColumns, relation, referencedProperty) ==
    LET arg == joinColumnMetadataArg(joinColumns, referencedProperty)
    IN  IF arg # 0 THEN joinColumns[arg].name
        ELSE joinColumnName(relation.propertyName, referencedProperty)

relationalColumns(own, relation) ==
    IF relation.embeddedMetadata
    THEN EmbeddedColumns[relation.entityMetadata]
    ELSE own[relation.entityMetadata]

findRelationalColumn(h, own, relation, name) ==
    LET cols == relationalColumns(own, relation)
    IN  FindColumn(cols,
            {i \in 1..Len(cols) : h[cols[i]].databaseNameWithoutPrefixes = name})

\* new ColumnMetadata({ mode: "virtual", propertyName, options: {...} })
newColumnMetadata(relation, name, referenced) ==
    [entityMetadata |-> relation.entityMetadata,
     propertyName |-> relation.propertyName,
     databaseNameWithoutPrefixes |-> name,
     type |-> referenced.type,
     isPrimary |-> relation.isPrimary,
     isVirtual |-> TRUE,
     referencedColumn |-> NoColumn,
     relationMetadata |-> Undef]

\* variant: an existing column is always reused in place
isClaimedNever(column) == FALSE

\* else if (relationalColumn.referencedColumn): the column is already claimed
isClaimed(column) == column.referencedColumn # NoColumn

\* OrmUtils.cloneObject: a fresh object with the same field values
cloneObject(h, column) == Append(h, h[column])

\* one iteration of referencedColumns.map(...) on the state st so far
materializeColumn(st, joinColumns, relation, referencedColumn) ==
    LET referenced == st.heap[referencedColumn]
        name == joinColumnNameFor(joinColumns, relation, referenced.propertyName)
        existing == findRelationalColumn(st.heap, st.ownColumns, relation, name)
        fresh == Len(st.heap) + 1
        step ==
            IF existing = NoColumn
            THEN [heap |-> Append(st.heap,
                                  newColumnMetadata(relation, name, referenced)),
                  ownColumns |-> registerColumn(st.ownColumns,
                                                relation.entityMetadata, fresh),
                  column |-> fresh]
            ELSE IF isClaimed(st.heap[existing])
                 THEN [heap |-> cloneObject(st.heap, existing),
                       ownColumns |-> st.ownColumns,
                       column |-> fresh]
                 ELSE [heap |-> st.heap, ownColumns |-> st.ownColumns,
                       column |-> existing]
    IN  [heap |-> [step.heap EXCEPT
                      ![step.column].referencedColumn = referencedColumn,
                      ![step.column].type = referenced.type,
                      ![step.column].relationMetadata = relation.propertyName],
         ownColumns |-> step.ownColumns,
         columns |-> Append(st.columns, step.column)]

RECURSIVE collectFrom(_, _, _, _, _)
collectFrom(st, joinColumns, relation, referencedColumns, i) ==
    IF i > Len(referencedColumns) THEN st
    ELSE collectFrom(materializeColumn(st, joinColumns, relation,
                                       referencedColumns[i]),
                     joinColumns, relation, referencedColumns, i + 1)

collectColumns(joinColumns, relation, referencedColumns) ==
    collectFrom([heap |-> heap, ownColumns |-> ownColumns, columns |-> <<>>],
                joinColumns, relation, referencedColumns, 1)

-----------------------------------------------------------------------------
(* build *)

\* columns.every((column) => column.isPrimary) || !relation.isOneToOne
skipsUniqueConstraint(h, columns, relation) ==
    \/ \A i \in 1..Len(columns) : h[columns[i]].isPrimary
    \/ ~isOneToOne(relation)

\* variant: createForeignKeyConstraints is not consulted
skipsForeignKeyOnlyWhenEmpty(referencedColumns, relation) ==
    Len(referencedColumns) = 0

\* no foreign key is built: no referenced columns, or constraints switched off
skipsForeignKey(referencedColumns, relation) ==
    Len(referencedColumns) = 0 \/ ~relation.createForeignKeyConstraints

build(joinColumns, relation) ==
    LET referenced == collectReferencedColumns(joinColumns, relation)
        st == collectColumns(joinColumns, relation, referenced.columns)
        foreignKey == [present |-> TRUE, columns |-> st.columns,
                       referencedColumns |-> referenced.columns]
    IN  IF referenced.threw
        THEN [threw |-> TRUE, heap |-> heap, ownColumns |-> ownColumns,
              referencedColumns |-> <<>>, columns |-> <<>>,
              foreignKey |-> NoForeignKey, uniqueConstraint |-> NoUnique]
        ELSE [threw |-> FALSE, heap |-> st.heap, ownColumns |-> st.ownColumns,
              referencedColumns |-> referenced.columns, columns |-> st.columns,
              foreignKey |->
                  IF skipsForeignKey(referenced.columns, relation)
                  THEN NoForeignKey ELSE foreignKey,
              uniqueConstraint |->
                  IF \/ skipsForeignKey(referenced.columns, relation)
                     \/ skipsUniqueConstraint(st.heap, st.columns, relation)
                  THEN NoUnique
                  ELSE [present |-> TRUE, columns |-> foreignKey.columns]]

-----------------------------------------------------------------------------
(* The caller: every many-to-one / one-to-one relation is resolved once, one
   after the other; a thrown error stops the schema load. *)

NoCall == [called |-> FALSE, threw |-> FALSE, joinColumns |-> <<>>,
           relation |-> Relation(Undef, "Post", "Post", "many-to-one",
                                 FALSE, TRUE, FALSE)]

Init ==
    /\ heap = InitialHeap
    /\ ownColumns = [e \in Entities |-> IF e = "Post" THEN <<1, 2>> ELSE <<4, 5>>]
    /\ resolved = <<>>
    /\ lastCall = NoCall

Resolve(joinColumns, relation) ==
    LET out == build(joinColumns, relation)
    IN  /\ ~lastCall.threw
        /\ heap' = out.heap
        /\ ownColumns' = out.ownColumns
        /\ resolved' =
              IF out.threw THEN resolved
              ELSE Append(resolved,
                          [relation |-> relation,
                           referencedColumns |-> out.referencedColumns,
                           columns |-> out.columns,
                           foreignKey |-> out.foreignKey,
                           uniqueConstraint |-> out.uniqueConstraint])
        /\ lastCall' = [called |-> TRUE, threw |-> out.threw,
                        joinColumns |-> joinColumns, relation |-> relation]

\* the relations a schema can declare under the next property name
\* (a relation lies inside an embedded only if its entity has one)
Relations(name) ==
    {r \in {Relation(name, e, inv, t, p, fk, emb) :
                e \in Entities, inv \in Entities,
                t \in {"many-to-one", "one-to-one"},
                p \in BOOLEAN, fk \in BOOLEAN, emb \in BOOLEAN} :
        r.embeddedMetadata => Len(EmbeddedColumns[r.entityMetadata]) > 0}

\* Spec: one relation, any list of up to MaxJoinColumns specs
JoinColumnLists ==
    SeqsUpTo(JoinColumnArgs({Undef, "title", "fk"},
                            {Undef, "id", "title", "missing"}),
             MaxJoinColumns)

BuildOne ==
    /\ ~lastCall.called
    /\ \E relation \in Relations(RelationNames[1]) :
       \E joinColumns \in JoinColumnLists :
          Resolve(joinColumns, relation)

Next == BuildOne

Spec == Init /\ [][Next]_vars

\* SpecSeq: up to MaxRelations many-to-one relations, each with at most one spec
SeqRelations(name) ==
    {r \in Relations(name) : /\ isManyToOne(r)
                             /\ ~r.isPrimary
                             /\ r.createForeignKeyConstraints}

SeqJoinColumnLists ==
    {<<>>} \cup {<<s>> : s \in JoinColumnArgs({Undef, "title", "fk"},
                                              {Undef, "title"})}

BuildNext ==
    /\ Len(resolved) < MaxRelations
    /\ \E relation \in SeqRelations(RelationNames[Len(resolved) + 1]) :
       \E joinColumns \in SeqJoinColumnLists :
          Resolve(joinColumns, relation)

NextSeq == BuildNext

SpecSeq == Init /\ [][NextSeq]_vars

-----------------------------------------------------------------------------
(* Vocabulary of the properties *)

Returned == lastCall.called /\ ~lastCall.threw

\* the column is registered on the entity (own or embedded column set)
Registered(own, entity, column) == column \in Range(AllColumns(own, entity))

\* how many times the column occurs in the entity's column sets
Registrations(own, entity, column) ==
    LET all == AllColumns(own, entity)
    IN  Cardinality({i \in 1..Len(all) : all[i] = column})

\* the spec names a property that is no own column of the target
NamesMissingColumn(h, own, joinColumn, relation) ==
    /\ isSet(joinColumn.referencedColumnName)
    /\ \A c \in Range(own[relation.inverseEntityMetadata]) :
          h[c].propertyName # joinColumn.referencedColumnName

InPrimaryKey(h, own, entity, column) ==
    column \in Range(primaryColumns(h, own, entity))

-----------------------------------------------------------------------------
(* C1 *)

C1_UsesPrimaryKey(joinColumns, relation) ==
    \/ Len(joinColumns) = 0 /\ isManyToOne(relation)
    \/ /\ Len(joinColumns) > 0
       /\ \A i \in 1..Len(joinColumns) : ~isSet(joinColumns[i].referencedColumnName)

C1_Expected(h, own, joinColumns, relation, referenced) ==
    LET target == relation.inverseEntityMetadata
    IN  IF C1_UsesPrimaryKey(joinColumns, relation)
        THEN referenced = primaryColumns(h, own, target)
        ELSE /\ Len(referenced) = Len(joinColumns)
             /\ \A i \in 1..Len(joinColumns) :
                   /\ referenced[i] \in Range(own[target])
                   /\ h[referenced[i]].propertyName =
                         joinColumns[i].referencedColumnName

C1_Step(h, own, call, results) ==
    /\ C1_UsesPrimaryKey(call.joinColumns, call.relation) => ~call.threw
    /\ (call.called /\ ~call.threw) =>
          C1_Expected(h, own, call.joinColumns, call.relation,
                      Last(results).referencedColumns)

\* C1: every build() resolves the referenced columns to the target's
\* primary-key list (in its order) when the spec list is empty on a
\* many-to-one relation or non-empty without any referencedColumnName, and
\* otherwise to one own column of the target per spec, in input order, the
\* i-th having the i-th spec's referencedColumnName as property name (an
\* empty list on a relation that is not many-to-one gives an empty list).
C1_ReferencedColumns ==
    [][C1_Step(heap, ownColumns, lastCall', resolved')]_vars

\* a one-to-one relation without specs resolved to no referenced column
C1_Witness ==
    /\ Returned
    /\ lastCall.joinColumns = <<>>
    /\ isOneToOne(lastCall.relation)
    /\ Last(resolved).referencedColumns = <<>>

-----------------------------------------------------------------------------
(* C2 *)

C2_Name(joinColumns, relation, referencedProperty) ==
    LET candidates ==
            {k \in 1..Len(joinColumns) :
                /\ joinColumns[k].name # Undef
                /\ joinColumns[k].referencedColumnName \in {Undef, referencedProperty}}
    IN  IF candidates = {}
        THEN joinColumnName(relation.propertyName, referencedProperty)
        ELSE joinColumns[Min(candidates)].name

C2_FullySpecifiedPair(joinColumns) ==
    /\ Len(joinColumns) = 2
    /\ \A i \in 1..2 : /\ joinColumns[i].name # Undef
                       /\ joinColumns[i].referencedColumnName # Undef
    /\ joinColumns[1].referencedColumnName # joinColumns[2].referencedColumnName

\* C2: the i-th materialized column belongs to the i-th referenced column
\* and its physical name is the name of the first spec whose
\* referencedColumnName is unset or equal to that column's property name
\* and whose name is set, else namingStrategy.joinColumnName(relation,
\* property); two fully specified specs give exactly two columns, the i-th
\* named by the i-th spec and linked to the i-th spec's referenced column.
C2_PhysicalNames ==
    Returned =>
        LET r == Last(resolved)
            jc == lastCall.joinColumns
        IN  /\ Len(r.columns) = Len(r.referencedColumns)
            /\ \A i \in 1..Len(r.columns) :
                  /\ heap[r.columns[i]].referencedColumn = r.referencedColumns[i]
                  /\ heap[r.columns[i]].databaseNameWithoutPrefixes =
                        C2_Name(jc, lastCall.relation,
                                heap[r.referencedColumns[i]].propertyName)
            /\ C2_FullySpecifiedPair(jc) =>
                  /\ Len(r.columns) = 2
                  /\ \A i \in 1..2 :
                        /\ heap[r.columns[i]].databaseNameWithoutPrefixes = jc[i].name
                        /\ heap[heap[r.columns[i]].referencedColumn].propertyName =
                              jc[i].referencedColumnName

\* two fully specified specs with different names were resolved
C2_Witness ==
    /\ Returned
    /\ C2_FullySpecifiedPair(lastCall.joinColumns)
    /\ lastCall.joinColumns[1].name # lastCall.joinColumns[2].name
    /\ Len(Last(resolved).columns) = 2

-----------------------------------------------------------------------------
(* C3 *)

C3_ForeignKeyShape(r, relation) ==
    /\ ~r.foreignKey.present <=>
          (Len(r.referencedColumns) = 0 \/ ~relation.createForeignKeyConstraints)
    /\ ~r.foreignKey.present => ~r.uniqueConstraint.present
    /\ Len(r.referencedColumns) = 0 => r.columns = <<>>
    /\ r.foreignKey.present =>
          /\ r.foreignKey.columns = r.columns
          /\ r.foreignKey.referencedColumns = r.referencedColumns

C3_Populated(r) ==
    /\ Len(r.columns) = Len(r.referencedColumns)
    /\ \A i \in 1..Len(r.columns) :
          heap[r.columns[i]].referencedColumn = r.referencedColumns[i]

\* the column is a copy of a registered, already claimed column of the
\* owning entity with the same declared attributes
C3_IsClone(relation, column) ==
    \E d \in Range(AllColumns(ownColumns, relation.entityMetadata)) :
        /\ d # column
        /\ isClaimed(heap[d])
        /\ heap[d].databaseNameWithoutPrefixes =
              heap[column].databaseNameWithoutPrefixes
        /\ heap[d].propertyName = heap[column].propertyName
        /\ heap[d].isPrimary = heap[column].isPrimary
        /\ heap[d].isVirtual = heap[column].isVirtual

\* C3 as stated: the foreign key is absent exactly when there are no
\* referenced columns or createForeignKeyConstraints is false; without
\* constraints the columns are still populated and all of them registered
\* on the owning entity.
C3_Original ==
    Returned =>
        LET r == Last(resolved)
            relation == lastCall.relation
        IN  /\ C3_ForeignKeyShape(r, relation)
            /\ ~relation.createForeignKeyConstraints =>
                  /\ C3_Populated(r)
                  /\ \A c \in Range(r.columns) :
                        Registered(ownColumns, relation.entityMetadata, c)

\* C3 (amended): as C3, except that a materialized column is registered on
\* the owning entity unless it is a clone of a registered, already claimed
\* column of the same physical name.
C3_Amended ==
    Returned =>
        LET r == Last(resolved)
            relation == lastCall.relation
        IN  /\ C3_ForeignKeyShape(r, relation)
            /\ ~relation.createForeignKeyConstraints =>
                  /\ C3_Populated(r)
                  /\ \A c \in Range(r.columns) :
                        \/ Registered(ownColumns, relation.entityMetadata, c)
                        \/ C3_IsClone(relation, c)

\* constraints switched off, columns populated, one of them a clone
C3_Witness ==
    /\ Returned
    /\ ~lastCall.relation.createForeignKeyConstraints
    /\ ~Last(resolved).foreignKey.present
    /\ \E c \in Range(Last(resolved).columns) :
          /\ ~Registered(ownColumns, lastCall.relation.entityMetadata, c)
          /\ C3_IsClone(lastCall.relation, c)
    /\ \E c \in Range(Last(resolved).columns) :
          Registered(ownColumns, lastCall.relation.entityMetadata, c)

-----------------------------------------------------------------------------
(* C4, C5 *)

\* some resolved referenced column lies outside the target's primary key
C4_ReferencesNonPrimary(r, relation) ==
    \E c \in Range(r.referencedColumns) :
        ~InPrimaryKey(heap, ownColumns, relation.inverseEntityMetadata, c)

\* C4: with constraints on, a one-to-one relation whose referenced column
\* is not the target's primary key gets a unique constraint over exactly
\* the foreign key's columns, and a many-to-one relation gets none.
C4_Original ==
    (/\ Returned
     /\ lastCall.relation.createForeignKeyConstraints
     /\ C4_ReferencesNonPrimary(Last(resolved), lastCall.relation)) =>
        LET r == Last(resolved)
        IN  /\ isOneToOne(lastCall.relation) =>
                  /\ r.uniqueConstraint.present
                  /\ r.uniqueConstraint.columns = r.foreignKey.columns
            /\ isManyToOne(lastCall.relation) => ~r.uniqueConstraint.present

\* C5: a unique constraint is returned only for a one-to-one relation with
\* at least one referenced column outside the target's primary key.
C5_Original ==
    (Returned /\ Last(resolved).uniqueConstraint.present) =>
        /\ isOneToOne(lastCall.relation)
        /\ C4_ReferencesNonPrimary(Last(resolved), lastCall.relation)

-----------------------------------------------------------------------------
(* C6 *)

C6_Offending(h, own, call) ==
    \E i \in 1..Len(call.joinColumns) :
        NamesMissingColumn(h, own, call.joinColumns[i], call.relation)

\* C6: a build() whose spec list names, at any position, a referenced
\* property that is no own column of the target throws, returns nothing,
\* registers no column and leaves every column descriptor as it was.
C6_NoPartialResult ==
    [][C6_Offending(heap, ownColumns, lastCall') =>
          /\ lastCall'.threw
          /\ heap' = heap
          /\ ownColumns' = ownColumns
          /\ resolved' = resolved]_vars

\* the offending spec came second, after a spec that resolves
C6_Witness ==
    /\ lastCall.called
    /\ lastCall.threw
    /\ Len(lastCall.joinColumns) = 2
    /\ ~NamesMissingColumn(heap, ownColumns, lastCall.joinColumns[1],
                           lastCall.relation)
    /\ isSet(lastCall.joinColumns[1].referencedColumnName)
    /\ NamesMissingColumn(heap, ownColumns, lastCall.joinColumns[2],
                          lastCall.relation)

-----------------------------------------------------------------------------
(* C7 *)

\* C7: build() completes whenever every referencedColumnName that is set
\* names an own column of the target, also when other specs of the list
\* omit theirs.
C7_Original ==
    (/\ lastCall.called
     /\ \A i \in 1..Len(lastCall.joinColumns) :
           ~NamesMissingColumn(heap, ownColumns, lastCall.joinColumns[i],
                               lastCall.relation)) =>
        ~lastCall.threw

C7_Throws(h, own, call) ==
    /\ \E i \in 1..Len(call.joinColumns) :
          isSet(call.joinColumns[i].referencedColumnName)
    /\ \E i \in 1..Len(call.joinColumns) :
          \/ ~isSet(call.joinColumns[i].referencedColumnName)
          \/ NamesMissingColumn(h, own, call.joinColumns[i], call.relation)

\* C7 (amended): build() throws exactly when some spec sets a
\* referencedColumnName and some spec of the same list omits it or names a
\* property that is no own column of the target; every other list (no
\* referencedColumnName at all, or all set and existing, names set or not)
\* completes.
C7_Amended ==
    [][lastCall'.called =>
          (lastCall'.threw <=> C7_Throws(heap, ownColumns, lastCall'))]_vars

\* a two-spec list whose first spec omits the name completed
C7_Witness ==
    /\ Returned
    /\ Len(lastCall.joinColumns) = 2
    /\ ~isSet(lastCall.joinColumns[1].name)
    /\ isSet(lastCall.joinColumns[2].name)
    /\ \A i \in 1..2 : isSet(lastCall.joinColumns[i].referencedColumnName)
    /\ Len(Last(resolved).columns) = 2

-----------------------------------------------------------------------------
(* C8 *)

NameOf(h, column) == h[column].databaseNameWithoutPrefixes

\* the columns of a resolution that carry the physical name, in order
ColumnsNamed(h, r, name) ==
    {c \in Range(r.columns) : NameOf(h, c) = name}

\* first of the resolution's columns carrying the physical name
FirstNamed(h, r, name) ==
    r.columns[Min({i \in 1..Len(r.columns) : NameOf(h, r.columns[i]) = name})]

\* resolutions i < j of two many-to-one relations of one owning entity that
\* both resolved to the physical name, i being the first to do so
C8_Claimants(i, j, name) ==
    /\ i < j
    /\ isManyToOne(resolved[i].relation)
    /\ isManyToOne(resolved[j].relation)
    /\ resolved[i].relation.entityMetadata = resolved[j].relation.entityMetadata
    /\ ColumnsNamed(heap, resolved[i], name) # {}
    /\ ColumnsNamed(heap, resolved[j], name) # {}
    /\ \A k \in 1..(i - 1) :
          resolved[k].relation.entityMetadata = resolved[i].relation.entityMetadata
             => ColumnsNamed(heap, resolved[k], name) = {}

C8_Names == {NameOf(heap, c) : c \in 1..Len(heap)}

\* C8: of two many-to-one relations of one owning entity resolved to the
\* same physical column name, both descriptors are registered on the owning
\* entity, each exactly once.
C8_Original ==
    \A i, j \in 1..Len(resolved) : \A name \in C8_Names :
        C8_Claimants(i, j, name) =>
            LET owner == resolved[i].relation.entityMetadata
                first == FirstNamed(heap, resolved[i], name)
            IN  /\ Registrations(ownColumns, owner, first) = 1
                /\ \A later \in ColumnsNamed(heap, resolved[j], name) :
                      Registrations(ownColumns, owner, later) = 1

\* C8 (amended): the first claimant's descriptor is registered on the owning
\* entity exactly once; the later claimant's is another descriptor, which
\* is not registered at all when the later relation's column scope holds
\* the first claimant's descriptor (it is then an unregistered clone), and
\* registered at most once otherwise.
C8_Amended ==
    \A i, j \in 1..Len(resolved) : \A name \in C8_Names :
        C8_Claimants(i, j, name) =>
            LET owner == resolved[i].relation.entityMetadata
                first == FirstNamed(heap, resolved[i], name)
                scope == relationalColumns(ownColumns, resolved[j].relation)
            IN  /\ Registrations(ownColumns, owner, first) = 1
                /\ \A later \in ColumnsNamed(heap, resolved[j], name) :
                      /\ later # first
                      /\ Registrations(ownColumns, owner, later) <= 1
                      /\ first \in Range(scope) =>
                            Registrations(ownColumns, owner, later) = 0

\* two many-to-one relations of Post took the same name; the second holds
\* an unregistered clone
C8_Witness ==
    /\ Len(resolved) >= 2
    /\ \E name \in C8_Names :
          /\ C8_Claimants(1, 2, name)
          /\ \E later \in ColumnsNamed(heap, resolved[2], name) :
                /\ later # FirstNamed(heap, resolved[1], name)
                /\ ~Registered(ownColumns, resolved[2].relation.entityMetadata, later)
                /\ heap[later].relationMetadata = resolved[2].relation.propertyName

-----------------------------------------------------------------------------
(* C9 *)

\* C9: every column that carries a referenced-column link has the type of
\* the column it links to, and every foreign key built so far pairs
\* columns of equal type.
C9_Original ==
    /\ \A c \in 1..Len(heap) :
          isClaimed(heap[c]) => heap[c].type = heap[heap[c].referencedColumn].type
    /\ \A k \in 1..Len(resolved) :
          LET fk == resolved[k].foreignKey
          IN  fk.present =>
                 /\ Len(fk.columns) = Len(fk.referencedColumns)
                 /\ \A i \in 1..Len(fk.columns) :
                       heap[fk.columns[i]].type = heap[fk.referencedColumns[i]].type

-----------------------------------------------------------------------------
(* C10 *)

SameScope(r1, r2) ==
    /\ r1.entityMetadata = r2.entityMetadata
    /\ r1.embeddedMetadata = r2.embeddedMetadata

RegisteredNamed(h, own, entity, name) ==
    {c \in Range(AllColumns(own, entity)) : NameOf(h, c) = name}

\* earlier resolutions in the scope of relation that hold a column named so
C10_Earlier(relation, name) ==
    {k \in 1..Len(resolved) :
        /\ SameScope(resolved[k].relation, relation)
        /\ ColumnsNamed(heap, resolved[k], name) # {}}

\* the first claimant holds the registered descriptor: a new registered
\* one, or an unclaimed existing one reused without growing the registry
C10_First(r, name, hNew, ownNew) ==
    LET first == FirstNamed(hNew, r, name)
        owner == r.relation.entityMetadata
    IN  /\ Registered(ownNew, owner, first)
        /\ \/ first > Len(heap)
           \/ /\ ~isClaimed(heap[first])
              /\ AllColumns(ownNew, owner) = AllColumns(ownColumns, owner)

\* a later claimant holds other descriptors than the earlier ones
C10_Distinct(r, name, hNew) ==
    \A k \in C10_Earlier(r.relation, name) :
        ColumnsNamed(hNew, r, name) \cap ColumnsNamed(heap, resolved[k], name) = {}

\* the earlier claimants' descriptors keep link, type and back-reference
C10_Frame(r, name, hNew) ==
    \A k \in C10_Earlier(r.relation, name) :
        \A c \in ColumnsNamed(heap, resolved[k], name) :
            /\ hNew[c].referencedColumn = heap[c].referencedColumn
            /\ hNew[c].type = heap[c].type
            /\ hNew[c].relationMetadata = heap[c].relationMetadata

\* no second registered descriptor of that name is added
C10_NoSecond(r, name, hNew, ownNew) ==
    RegisteredNamed(hNew, ownNew, r.relation.entityMetadata, name) =
        RegisteredNamed(heap, ownColumns, r.relation.entityMetadata, name)

\* earlier resolutions of the owning entity, in any scope, holding the name
C10_EarlierOfEntity(relation, name) ==
    {k \in 1..Len(resolved) :
        /\ resolved[k].relation.entityMetadata = relation.entityMetadata
        /\ ColumnsNamed(heap, resolved[k], name) # {}}

C10_Step(r, hNew, ownNew) ==
    \A name \in {NameOf(hNew, c) : c \in Range(r.columns)} :
        /\ C10_EarlierOfEntity(r.relation, name) = {} =>
              C10_First(r, name, hNew, ownNew)
        /\ C10_Earlier(r.relation, name) # {} =>
              /\ C10_Distinct(r, name, hNew)
              /\ C10_Frame(r, name, hNew)
              /\ C10_NoSecond(r, name, hNew, ownNew)

====
